---- MODULE Spec2Model ----
(***************************************************************************)
(* A model of cdk-keycloak-quarkus: the Common class (lib/common.ts) that  *)
(* validates the configuration document, verifies the deployment's         *)
(* preconditions against external services and derives names, and the      *)
(* entry point (bin) that calls it before defining the stacks.             *)
(*                                                                         *)
(* Strings are sequences of one-character strings, so that splitting,      *)
(* case conversion and concatenation are computed and not assumed.         *)
(***************************************************************************)
EXTENDS Integers, Sequences, FiniteSets, TLC

VARIABLES
    params,     \* the configuration document: context.params of cdk.json
    files,      \* the filesystem: path -> content, for the paths that exist
    pc,         \* the entry point's position
    exitError,  \* the error the process ended with, NoError while none
    checks,     \* the asynchronous checks issued so far, in order of issue
    effects,    \* the resource-affecting actions and the definitions of the
                \* entry point done so far, in order
    ret         \* the outcome of the last library call (library specifications)

vars == <<params, files, pc, exitError, checks, effects, ret>>

(***************************************************************************)
(* Bounds of the model.                                                    *)
(***************************************************************************)
\* Longest generated application / branch name (characters).
MaxStrLen == 2
\* Most environment records in a generated document.
MaxEnvs == 3
\* Most container records in a generated document.
MaxContainers == 2

(***************************************************************************)
(* Strings.                                                                *)
(***************************************************************************)
LowerAlpha == <<"a","b","c","d","e","f","g","h","i","j","k","l","m",
                "n","o","p","q","r","s","t","u","v","w","x","y","z">>
UpperAlpha == <<"A","B","C","D","E","F","G","H","I","J","K","L","M",
                "N","O","P","Q","R","S","T","U","V","W","X","Y","Z">>

\* String.prototype.toUpperCase / toLowerCase on one character.
ToUpperChar(c) ==
    IF \E i \in 1..Len(LowerAlpha) : LowerAlpha[i] = c
    THEN UpperAlpha[CHOOSE i \in 1..Len(LowerAlpha) : LowerAlpha[i] = c]
    ELSE c
ToLowerChar(c) ==
    IF \E i \in 1..Len(UpperAlpha) : UpperAlpha[i] = c
    THEN LowerAlpha[CHOOSE i \in 1..Len(UpperAlpha) : UpperAlpha[i] = c]
    ELSE c
ToUpperCase(s) == [i \in 1..Len(s) |-> ToUpperChar(s[i])]
ToLowerCase(s) == [i \in 1..Len(s) |-> ToLowerChar(s[i])]

\* s.charAt(0): the empty string when s is empty.
CharAt0(s) == IF Len(s) = 0 THEN <<>> ELSE <<s[1]>>
\* s.slice(1)
Slice1(s) == IF Len(s) = 0 THEN <<>> ELSE Tail(s)

\* The index of the first sep in s, 0 when there is none.
IndexOf(s, sep) ==
    IF \E i \in 1..Len(s) : s[i] = sep
    THEN CHOOSE i \in 1..Len(s) : s[i] = sep /\ \A j \in 1..(i - 1) : s[j] # sep
    ELSE 0

\* s.split(sep) for a one-character separator: always at least one segment.
RECURSIVE Split(_, _)
Split(s, sep) ==
    LET i == IndexOf(s, sep)
    IN  IF i = 0 THEN <<s>>
        ELSE <<SubSeq(s, 1, i - 1)>> \o Split(SubSeq(s, i + 1, Len(s)), sep)

\* Concatenation of a sequence of strings.
RECURSIVE Concat(_)
Concat(ss) == IF Len(ss) = 0 THEN <<>> ELSE Head(ss) \o Concat(Tail(ss))

Hyphen == <<"-">>
Slash == <<"/">>
Dot == <<".">>

(***************************************************************************)
(* Environment names (common.ts, envs / validEnvNames).                    *)
(***************************************************************************)
envs_Development == <<"d","e","v">>
envs_Staging == <<"s","t","g">>
envs_Production == <<"p","r","o","d">>
validEnvNames == <<envs_Development, envs_Staging, envs_Production>>

\* Array.prototype.includes
Includes(arr, v) == \E i \in 1..Len(arr) : arr[i] = v

\* The value of a missing property. It is no string: its one element is not a
\* character.
Undefined == <<"undefined">>

\* obj[key] of a configuration record: undefined when the key is missing.
Prop(obj, key) == IF key \in DOMAIN obj THEN obj[key] ELSE Undefined

\* The result of Array.prototype.find: <<>> when nothing is found (undefined),
\* <<x>> for the first element x that satisfies the test.
NotFound == <<>>
Found(x) == <<x>>

(***************************************************************************)
(* Errors. kind names the throw site, prefix is the message's prefix (the  *)
(* text getConsoleMessage puts before it, empty when the site does not use *)
(* it), subject is the name the message quotes.                            *)
(***************************************************************************)
Err(kind, prefix, subject) == [kind |-> kind, prefix |-> prefix, subject |-> subject]
NoError == Err("none", <<>>, <<>>)

(***************************************************************************)
(* Naming (common.ts, Common).                                             *)
(***************************************************************************)
\* The mutation of CapitalizeWord used for C10: the rest of the word keeps its case.
CapitalizeWord_KeepRest(word) == ToUpperCase(CharAt0(word)) \o Slice1(word)

\* One step of capitalizeString's forEach: str + word.charAt(0).toUpperCase()
\* + word.slice(1).toLowerCase().
CapitalizeWord(word) == ToUpperCase(CharAt0(word)) \o ToLowerCase(Slice1(word))

RECURSIVE CapitalizeWords(_)
CapitalizeWords(words) ==
    IF Len(words) = 0 THEN <<>>
    ELSE CapitalizeWord(Head(words)) \o CapitalizeWords(Tail(words))

capitalizeString(value) == CapitalizeWords(Split(value, "-"))

isProduction == params.target.environment = envs_Production
isStaging == params.target.environment = envs_Staging
isDevelopment == params.target.environment = envs_Development

\* The mutation of isProductionOrStaging used for C9: staging is not durable.
isProductionOrStaging_ProductionOnly == params.target.environment = envs_Production

isProductionOrStaging ==
    LET target == params.target
    IN  target.environment = envs_Production \/ target.environment = envs_Staging

getId(value) ==
    LET target == params.target
    IN  capitalizeString(target.application)
            \o capitalizeString(target.environment)
            \o capitalizeString(target.branch)
            \o value

getResourceName(value) ==
    LET target == params.target
    IN  IF isProductionOrStaging
        THEN target.application \o Hyphen \o target.environment \o Hyphen \o value
        ELSE target.application \o Hyphen \o target.environment \o Hyphen
                 \o target.branch \o Hyphen \o value

\* The mutation of getResourceNamePath used for C12: like getResourceName, it
\* leaves the branch out for production and staging.
getResourceNamePath_DurableWithoutBranch(value) ==
    LET target == params.target
    IN  IF isProductionOrStaging
        THEN Slash \o target.application \o Slash \o target.environment \o Slash \o value
        ELSE Slash \o target.application \o Slash \o target.environment \o Slash
                 \o target.branch \o Slash \o value

getResourceNamePath(value) ==
    LET target == params.target
    IN  Slash \o target.application \o Slash \o target.environment \o Slash
            \o target.branch \o Slash \o value

\* The prefix getConsoleMessage puts before a message: "[APP] ".
ConsolePrefix == <<"[">> \o ToUpperCase(params.target.application) \o <<"]", " ">>

(***************************************************************************)
(* The profiles (common.ts, Common.getVpcParameter, getRdsParameter,       *)
(* getEcsParameter). Durations are in seconds; the database's capacities   *)
(* are in half capacity units, so that 0.5 is the integer 1.               *)
(***************************************************************************)
getVpcParameter ==
    IF isProductionOrStaging
    THEN [ipAddresses |-> "10.0.0.0/16", natGateways |-> 2, maxAzs |-> 2,
          subnetCidrMask |-> 24]
    ELSE [ipAddresses |-> "10.0.0.0/16", natGateways |-> 1, maxAzs |-> 2,
          subnetCidrMask |-> 24]

getRdsParameter ==
    IF isProductionOrStaging
    THEN [deletionProtection |-> TRUE,
          backup |-> [retentionDays |-> 604800],
          monitoringInterval |-> 60,
          scaling |-> [minCapacity |-> 4, maxCapacity |-> 128],
          performanceInsightRetention |-> 604800,
          secretRetentionDays |-> 604800]
    ELSE [deletionProtection |-> FALSE,
          backup |-> [retentionDays |-> 86400],
          monitoringInterval |-> 60,
          scaling |-> [minCapacity |-> 1, maxCapacity |-> 4],
          performanceInsightRetention |-> 86400,
          secretRetentionDays |-> 604800]

\* One schedule-based scaling rule: every rule's cron has weekDay "MON-FRI",
\* month "*" and year "*".
ScheduleRule(minCapacity, maxCapacity, minute, hour) ==
    [minCapacity |-> minCapacity, maxCapacity |-> maxCapacity,
     cron |-> [minute |-> minute, hour |-> hour, weekDay |-> "MON-FRI",
               month |-> "*", year |-> "*"]]

\* The profile returned when isProductionOrStaging().
EcsParameterDurable ==
    [taskDefinition |-> [cpu |-> 4096, memoryLimitMiB |-> 8192,
                         command |-> <<"start", "--optimized">>],
     alb |-> [healthyThresholdCount |-> 3, interval |-> 60, timeout |-> 30,
              slowStart |-> 60, stickinessCookieDuration |-> 86400],
     bastion |-> [instanceType |-> "m5.large"],
     service |->
        [nodeCount |-> 4,
         healthCheckGracePeriod |-> 300,
         circuitBreaker |-> [rollback |-> TRUE],
         scaling |->
            [base |-> [minCapacity |-> 2, maxCapacity |-> 8, cpuUtilization |-> 70,
                       scaleOutCoolDown |-> 300, scaleInCoolDown |-> 300],
             schedule |->
                [beforeOpening |-> ScheduleRule(4, 24, "30", "23"),
                 afterOpening |-> ScheduleRule(2, 8, "30", "1"),
                 beforeClosing |-> ScheduleRule(4, 24, "0", "8"),
                 afterClosing |-> ScheduleRule(2, 4, "0", "10")]]]]

\* The mutation of EcsParameterNonDurable used for C17: the rule after closing
\* allows more replicas than the durable profile's.
EcsParameterNonDurable_WideAfterClosing ==
    [taskDefinition |-> [cpu |-> 1024, memoryLimitMiB |-> 2048,
                         command |-> <<"--verbose", "start">>],
     alb |-> [healthyThresholdCount |-> 3, interval |-> 60, timeout |-> 30,
              slowStart |-> 60, stickinessCookieDuration |-> 86400],
     bastion |-> [instanceType |-> "t3.micro"],
     service |->
        [nodeCount |-> 1,
         healthCheckGracePeriod |-> 300,
         circuitBreaker |-> Undefined,
         scaling |->
            [base |-> [minCapacity |-> 1, maxCapacity |-> 2, cpuUtilization |-> 90,
                       scaleOutCoolDown |-> 300, scaleInCoolDown |-> 300],
             schedule |->
                [beforeOpening |-> ScheduleRule(2, 4, "30", "23"),
                 afterOpening |-> ScheduleRule(1, 2, "30", "1"),
                 beforeClosing |-> ScheduleRule(2, 4, "0", "8"),
                 afterClosing |-> ScheduleRule(1, 8, "0", "10")]]]]

\* The profile returned otherwise.
EcsParameterNonDurable ==
    [taskDefinition |-> [cpu |-> 1024, memoryLimitMiB |-> 2048,
                         command |-> <<"--verbose", "start">>],
     alb |-> [healthyThresholdCount |-> 3, interval |-> 60, timeout |-> 30,
              slowStart |-> 60, stickinessCookieDuration |-> 86400],
     bastion |-> [instanceType |-> "t3.micro"],
     service |->
        [nodeCount |-> 1,
         healthCheckGracePeriod |-> 300,
         circuitBreaker |-> Undefined,
         scaling |->
            [base |-> [minCapacity |-> 1, maxCapacity |-> 2, cpuUtilization |-> 90,
                       scaleOutCoolDown |-> 300, scaleInCoolDown |-> 300],
             schedule |->
                [beforeOpening |-> ScheduleRule(2, 4, "30", "23"),
                 afterOpening |-> ScheduleRule(1, 2, "30", "1"),
                 beforeClosing |-> ScheduleRule(2, 4, "0", "8"),
                 afterClosing |-> ScheduleRule(1, 2, "0", "10")]]]]

\* The mutation of getEcsParameter used for C16: staging gets the non-durable
\* profile.
getEcsParameter_ProductionOnly ==
    IF isProduction THEN EcsParameterDurable ELSE EcsParameterNonDurable

getEcsParameter ==
    IF isProductionOrStaging THEN EcsParameterDurable ELSE EcsParameterNonDurable

(***************************************************************************)
(* Validation of the configuration document (common.ts, Common).           *)
(***************************************************************************)
\* A string used as a condition: undefined and "" are falsy.
Truthy(v) == v # Undefined /\ v # <<>>

\* Object.keys(v).length of a string or of an array: its length.
KeysLength(v) == Len(v)

\* The distinct values of an array: Array.from(new Set(arr)).length.
UniqueLength(arr) == Cardinality({arr[i] : i \in 1..Len(arr)})

\* The mutation of isValidEnvironment used for C3: the account comparison
\* only rejects more accounts than names.
isValidEnvironment_AccountsAtMost ==
    LET targetEnv == params.target.environment
        envNames == [i \in 1..Len(params.environments) |-> params.environments[i].name]
        envNameUniqueLength == UniqueLength(envNames)
        accounts == [i \in 1..Len(params.environments) |-> params.environments[i].account]
    IN  /\ Includes(validEnvNames, targetEnv)
        /\ \A i \in 1..Len(envNames) : Includes(validEnvNames, envNames[i])
        /\ Len(envNames) = envNameUniqueLength
        /\ ~(envNameUniqueLength < UniqueLength(accounts))
        /\ Len(SelectSeq(envNames, LAMBDA value : value = targetEnv)) = 1

\* The mutation of isValidEnvironment used for C22: the account comparison is
\* made with the number of names of the enumeration.
isValidEnvironment_AccountsVsEnumeration ==
    LET targetEnv == params.target.environment
        envNames == [i \in 1..Len(params.environments) |-> params.environments[i].name]
        envNameUniqueLength == UniqueLength(envNames)
        accounts == [i \in 1..Len(params.environments) |-> params.environments[i].account]
    IN  /\ Includes(validEnvNames, targetEnv)
        /\ \A i \in 1..Len(envNames) : Includes(validEnvNames, envNames[i])
        /\ Len(envNames) = envNameUniqueLength
        /\ Len(validEnvNames) = UniqueLength(accounts)
        /\ Len(SelectSeq(envNames, LAMBDA value : value = targetEnv)) = 1

\* verifyEnvironment's isValidEnvironment: every test is evaluated, any failing
\* one makes the document invalid.
isValidEnvironment ==
    LET targetEnv == params.target.environment
        envNames == [i \in 1..Len(params.environments) |-> params.environments[i].name]
        envNameUniqueLength == UniqueLength(envNames)
        accounts == [i \in 1..Len(params.environments) |-> params.environments[i].account]
    IN  /\ Includes(validEnvNames, targetEnv)
        /\ \A i \in 1..Len(envNames) : Includes(validEnvNames, envNames[i])
        /\ Len(envNames) = envNameUniqueLength
        /\ envNameUniqueLength = UniqueLength(accounts)
        /\ Len(SelectSeq(envNames, LAMBDA value : value = targetEnv)) = 1

\* verifyEnvironment(): the error it throws, NoError when it returns.
verifyEnvironment ==
    IF ~isValidEnvironment THEN Err("envInvalid", ConsolePrefix, <<>>) ELSE NoError

\* The first element of arr that satisfies Test: Array.prototype.find.
Find(arr, Test(_)) ==
    IF \E i \in 1..Len(arr) : Test(arr[i])
    THEN Found(arr[CHOOSE i \in 1..Len(arr) :
                       Test(arr[i]) /\ \A j \in 1..(i - 1) : ~Test(arr[j])])
    ELSE NotFound

\* getEnvironment(environmentName): the first record of that name, the target's
\* when no name (or an empty one) is given; NotFound for find()'s undefined.
getEnvironment(environmentName) ==
    LET envName == IF Truthy(environmentName) THEN environmentName
                   ELSE params.target.environment
    IN  Find(params.environments, LAMBDA obj : obj.name = envName)

\* getContainer(imageName): [err, val]; it throws when find() finds nothing.
getContainer(imageName) ==
    LET r == Find(params.containers, LAMBDA obj : obj.name = imageName)
    IN  IF r = NotFound
        THEN [err |-> Err("containerNotFound", ConsolePrefix, imageName), val |-> NotFound]
        ELSE [err |-> NoError, val |-> r]

\* A TypeError: a property read of undefined, raised by the runtime.
TypeError(what) == Err("TypeError", <<>>, <<what>>)

\* The mutation of getDomain used for C11: the development tier's domain has no
\* branch.
getDomain_NoBranch ==
    LET target == params.target
        env == getEnvironment(Undefined)
    IN  IF env = NotFound THEN [err |-> TypeError("domain"), val |-> Undefined]
        ELSE [err |-> NoError, val |-> target.environment \o Dot \o env[1].domain]

\* getDomain(): [err, val]. getEnvironment() is undefined when no record has the
\* target's tier name, and reading its domain throws.
getDomain ==
    LET target == params.target
        env == getEnvironment(Undefined)
    IN  IF env = NotFound THEN [err |-> TypeError("domain"), val |-> Undefined]
        ELSE [err |-> NoError,
              val |-> IF isProductionOrStaging
                      THEN target.environment \o Dot \o env[1].domain
                      ELSE target.environment \o Hyphen \o target.branch
                               \o Dot \o env[1].domain]

(***************************************************************************)
(* Asynchronous checks. A check is a promise with a then-callback and no   *)
(* catch: the request is sent when the check is issued ("pending"), or the *)
(* async function throws before sending and the promise is rejected at     *)
(* once ("rejected"); the service answers ("answered"); the callback runs  *)
(* ("done").                                                               *)
(***************************************************************************)
Request(service, region, arg) == [service |-> service, region |-> region, arg |-> arg]
NoRequest == Request("none", Undefined, Undefined)
\* An answer: ok is whether the call succeeded; account is the Account of the
\* identity; hasList is whether the result has a list (branches, repositories)
\* at all, list its names.
Answer(ok, account, hasList, list) ==
    [ok |-> ok, account |-> account, hasList |-> hasList, list |-> list]
NoAnswer == Answer(FALSE, Undefined, FALSE, <<>>)

\* A check whose request has been sent.
Pending(kind, subject, expect, request) ==
    [kind |-> kind, subject |-> subject, expect |-> expect, request |-> request,
     state |-> "pending", answer |-> NoAnswer, outcome |-> NoError]

\* A check whose async function threw before sending anything.
Rejected(kind, subject, expect, error) ==
    [kind |-> kind, subject |-> subject, expect |-> expect, request |-> NoRequest,
     state |-> "rejected", answer |-> NoAnswer, outcome |-> error]

TemplateFile(config) == config.imagePath \o <<"/">> \o <<"template">>
DockerfilePath(config) == config.imagePath \o <<"/">> \o <<"Dockerfile">>

\* existsSync(path)
existsSync(path) == path \in DOMAIN files

\* The mutation of isValidConfig used for C6: the tag is not tested.
isValidConfig_NoTag(config) ==
    /\ Includes(validEnvNames, config.environment)
    /\ ~(\/ KeysLength(config.repositoryName) = 0
         \/ KeysLength(config.imagePath) = 0
         \/ KeysLength(config.version) = 0)

\* verifyContainer's isValidConfig for one container record.
isValidConfig(config) ==
    /\ Includes(validEnvNames, config.environment)
    /\ ~(\/ KeysLength(config.repositoryName) = 0
         \/ KeysLength(config.imagePath) = 0
         \/ KeysLength(config.version) = 0
         \/ KeysLength(config.tag) = 0)

\* The repository check of one container (verifyContainer, getContainerRepositories
\* and the call): the region and the registry are read from repoEnv inside the
\* async function, so a missing repoEnv rejects the promise and throws nothing.
RepositoryCheck(imageName, config) ==
    LET repoEnv == getEnvironment(config.environment)
    IN  IF repoEnv = NotFound
        THEN Rejected("repository", imageName, config.repositoryName, TypeError("region"))
        ELSE Pending("repository", imageName, config.repositoryName,
                     Request("ecr", Prop(repoEnv[1], "region"), Prop(repoEnv[1], "Account")))

\* The mutation of containerNameDuplicated used for C4: the comparison is the
\* wrong way round and never true.
containerNameDuplicated_Less(containerNames) ==
    Len(containerNames) < UniqueLength(containerNames)

\* verifyContainer's test for duplicate container names, made after the loop.
containerNameDuplicated(containerNames) ==
    Len(containerNames) # UniqueLength(containerNames)

\* One existsSync probe of verifyContainer: the name looked up, the record
\* getContainer returned for it and the path probed.
Probe(imageName, config) ==
    [name |-> imageName, config |-> config, path |-> TemplateFile(config)]

\* verifyContainer's loop from the i-th container name on. issued and probed are
\* the repository checks issued and the template paths probed so far.
RECURSIVE VerifyContainerFrom(_, _, _)
VerifyContainerFrom(i, issued, probed) ==
    LET containerNames == [k \in 1..Len(params.containers) |-> params.containers[k].name]
    IN  IF i > Len(containerNames)
        THEN [err |-> IF containerNameDuplicated(containerNames)
                      THEN Err("containerDuplicated", ConsolePrefix, <<>>)
                      ELSE NoError,
              issued |-> issued, probed |-> probed]
        ELSE LET imageName == containerNames[i]
                 got == getContainer(imageName)
                 config == got.val[1]
             IN  IF got.err # NoError
                 THEN [err |-> got.err, issued |-> issued, probed |-> probed]
                 ELSE IF ~isValidConfig(config)
                 THEN [err |-> Err("containerInvalid", ConsolePrefix, imageName),
                       issued |-> issued, probed |-> probed]
                 ELSE IF ~existsSync(TemplateFile(config))
                 THEN [err |-> Err("templateNotFound", <<>>, TemplateFile(config)),
                       issued |-> issued,
                       probed |-> Append(probed, Probe(imageName, config))]
                 ELSE VerifyContainerFrom(i + 1,
                          Append(issued, RepositoryCheck(imageName, config)),
                          Append(probed, Probe(imageName, config)))

\* verifyContainer(): [err, issued, probed].
verifyContainer == VerifyContainerFrom(1, <<>>, <<>>)

(***************************************************************************)
(* Rendering of the Dockerfile (common.ts, Common.createDockerfile).       *)
(***************************************************************************)
Digits == <<"0","1","2","3","4","5","6","7","8","9">>

\* The decimal text of a natural number: `${index}`.
RECURSIVE NatToString(_)
NatToString(n) ==
    IF n < 10 THEN <<Digits[n + 1]>>
    ELSE NatToString(n \div 10) \o <<Digits[(n % 10) + 1]>>

\* `\$\{VERSION_${index}\}`: the text ${VERSION_index}.
Placeholder(index) ==
    <<"$","{","V","E","R","S","I","O","N","_">> \o NatToString(index) \o <<"}">>

\* Whether pat occurs in s at position i (1-based).
MatchesAt(s, pat, i) ==
    /\ i + Len(pat) - 1 <= Len(s)
    /\ \A k \in 1..Len(pat) : s[i + k - 1] = pat[k]

\* The replacement text of one match: in a replacement string $$ is a dollar,
\* $& the match, $` the text before the match and $' the text after it.
RECURSIVE ExpandReplacement(_, _, _, _)
ExpandReplacement(rep, matched, before, after) ==
    IF Len(rep) = 0 THEN <<>>
    ELSE IF Len(rep) >= 2 /\ rep[1] = "$" /\ rep[2] \in {"$", "&", "`", "'"}
    THEN (CASE rep[2] = "$" -> <<"$">>
            [] rep[2] = "&" -> matched
            [] rep[2] = "`" -> before
            [] rep[2] = "'" -> after)
         \o ExpandReplacement(SubSeq(rep, 3, Len(rep)), matched, before, after)
    ELSE <<rep[1]>> \o ExpandReplacement(Tail(rep), matched, before, after)

\* s.replaceAll(pat, rep) from position i on: the matches are found left to
\* right in s and do not overlap.
RECURSIVE ReplaceAllFrom(_, _, _, _)
ReplaceAllFrom(s, pat, rep, i) ==
    IF i > Len(s) THEN <<>>
    ELSE IF MatchesAt(s, pat, i)
    THEN ExpandReplacement(rep, pat, SubSeq(s, 1, i - 1),
                           SubSeq(s, i + Len(pat), Len(s)))
         \o ReplaceAllFrom(s, pat, rep, i + Len(pat))
    ELSE <<s[i]>> \o ReplaceAllFrom(s, pat, rep, i + 1)

ReplaceAll(s, pat, rep) == ReplaceAllFrom(s, pat, rep, 1)

\* createDockerfile's forEach over config.version, from the entry of the given
\* index (0-based) on.
RECURSIVE RenderFrom(_, _, _)
RenderFrom(out, version, index) ==
    IF index >= Len(version) THEN out
    ELSE RenderFrom(ReplaceAll(out, Placeholder(index), version[index + 1]),
                    version, index + 1)

\* The mutation of createDockerfile used for C19: the Dockerfile is created
\* empty before the template is read.
createDockerfile_WriteFirst(imageName) ==
    LET got == getContainer(imageName)
        config == got.val[1]
    IN  IF got.err # NoError THEN [err |-> got.err, files |-> files]
        ELSE LET path == DockerfilePath(config)
                 out == IF existsSync(TemplateFile(config))
                        THEN RenderFrom(files[TemplateFile(config)], config.version, 0)
                        ELSE <<>>
             IN  [err |-> IF existsSync(TemplateFile(config)) THEN NoError
                          ELSE Err("ENOENT", <<>>, TemplateFile(config)),
                  files |-> [f \in DOMAIN files \cup {path} |->
                                IF f = path THEN out ELSE files[f]]]

\* The mutation of createDockerfile used for C24: the rendered text is written to
\* the template file as well.
createDockerfile_RenderInPlace(imageName) ==
    LET got == getContainer(imageName)
        config == got.val[1]
    IN  IF got.err # NoError THEN [err |-> got.err, files |-> files]
        ELSE IF ~existsSync(TemplateFile(config))
        THEN [err |-> Err("ENOENT", <<>>, TemplateFile(config)), files |-> files]
        ELSE LET out == RenderFrom(files[TemplateFile(config)], config.version, 0)
                 path == DockerfilePath(config)
             IN  [err |-> NoError,
                  files |-> [f \in DOMAIN files \cup {path} |->
                                IF f \in {path, TemplateFile(config)} THEN out
                                ELSE files[f]]]

\* createDockerfile(imageName): [err, files], files being the filesystem after
\* the call. readFileSync throws when the template does not exist.
createDockerfile(imageName) ==
    LET got == getContainer(imageName)
        config == got.val[1]
    IN  IF got.err # NoError THEN [err |-> got.err, files |-> files]
        ELSE IF ~existsSync(TemplateFile(config))
        THEN [err |-> Err("ENOENT", <<>>, TemplateFile(config)), files |-> files]
        ELSE LET out == RenderFrom(files[TemplateFile(config)], config.version, 0)
                 path == DockerfilePath(config)
             IN  [err |-> NoError,
                  files |-> [f \in DOMAIN files \cup {path} |->
                                IF f = path THEN out ELSE files[f]]]

(***************************************************************************)
(* Generated inputs.                                                       *)
(***************************************************************************)
SeqsUpTo(S, n) == UNION {[1..k -> S] : k \in 0..n}

\* The characters of generated names: a lower-case letter, an upper-case
\* letter and the hyphen.
GenChars == {"a", "B", "-"}

Str_demo == <<"d","e","m","o">>
Str_development == <<"d","e","v","e","l","o","p","m","e","n","t">>
Str_feature1 == <<"f","e","a","t","u","r","e","-","1">>
Str_alb == <<"a","l","b">>
Str_CertStack == <<"C","e","r","t","S","t","a","c","k">>
Str_main == <<"m","a","i","n">>
Str_repo == <<"r","e","p","o">>
Str_keycloak == <<"k","e","y","c","l","o","a","k">>
Str_qa == <<"q","a">>

AppVals == SeqsUpTo(GenChars, MaxStrLen) \cup {Str_demo}
BranchVals == SeqsUpTo(GenChars, MaxStrLen) \cup {Str_feature1}
TierVals == {envs_Development, envs_Staging, envs_Production, Str_development}
BaseVals == {Str_alb, Str_CertStack, <<"a","-","b">>}

Target(application, environment, branch, repository) ==
    [application |-> application, environment |-> environment,
     branch |-> branch, repository |-> repository]

Params(target, environments, containers) ==
    [target |-> target, environments |-> environments, containers |-> containers]

NoFiles == [f \in {} |-> <<>>]
NoRet == [op |-> "none", arg |-> <<>>, val |-> <<>>, err |-> NoError]
Ret(op, arg, val, err) == [op |-> op, arg |-> arg, val |-> val, err |-> err]

EnvRecord(name, account, region, domain) ==
    [name |-> name, account |-> account, region |-> region, domain |-> domain]

ContainerRecord(name, environment, repositoryName, imagePath, version, tag) ==
    [name |-> name, environment |-> environment, repositoryName |-> repositoryName,
     imagePath |-> imagePath, version |-> version, tag |-> tag]

\* Tier names of generated environment records: the three of the enumeration
\* and one that is not in it.
EnvNameVals == {envs_Development, envs_Staging, envs_Production, Str_qa}
AccountVals == {<<"1","1","1">>, <<"2","2","2">>, <<"3","3","3">>}
Region1 == <<"r","1">>
Region2 == <<"r","2">>
Str_domain == <<"x",".","i","o">>
Str_img == <<"i","m","g">>
Str_tag == <<"t">>
Str_proxy == <<"p","x">>
Str_template == <<"F",":">> \o Placeholder(0)
Versions1 == << <<"1",".","2">> >>

DemoTarget(environment) == Target(Str_demo, environment, Str_main, Str_repo)

\* A filesystem in which the template of Str_img exists, or no file does.
TemplateFiles == [f \in {Str_img \o <<"/">> \o <<"template">>} |-> Str_template]

\* The container records generated: every name and tier reference, with every
\* other field set or exactly one of them empty.
ContainerRecordVals ==
    {ContainerRecord(n, e, f[1], f[2], f[3], f[4]) :
        n \in {Str_keycloak, Str_proxy},
        e \in {envs_Development, envs_Staging, Str_qa},
        f \in {<<Str_repo, Str_img, Versions1, Str_tag>>,
               <<<<>>, Str_img, Versions1, Str_tag>>,
               <<Str_repo, <<>>, Versions1, Str_tag>>,
               <<Str_repo, Str_img, <<>>, Str_tag>>,
               <<Str_repo, Str_img, Versions1, <<>>>>}}

(***************************************************************************)
(* SpecEnv: verifyEnvironment called on generated documents.               *)
(***************************************************************************)
InitEnv ==
    /\ params \in {Params(DemoTarget(e), environments, <<>>) :
                       e \in EnvNameVals,
                       environments \in SeqsUpTo(
                           {EnvRecord(n, a, Region1, Str_domain) :
                                n \in EnvNameVals, a \in AccountVals}, MaxEnvs)}
    /\ files = NoFiles
    /\ pc = "library"
    /\ exitError = NoError
    /\ checks = <<>>
    /\ effects = <<>>
    /\ ret = NoRet

CallVerifyEnvironment ==
    /\ pc = "library"
    /\ ret' = Ret("verifyEnvironment", <<>>, <<>>, verifyEnvironment)
    /\ UNCHANGED <<params, files, pc, exitError, checks, effects>>

\* getEnvironment() with no argument, as the entry point calls it.
CallGetEnvironment ==
    /\ pc = "library"
    /\ ret' = Ret("getEnvironment", <<>>, getEnvironment(Undefined), NoError)
    /\ UNCHANGED <<params, files, pc, exitError, checks, effects>>

NextEnv == CallVerifyEnvironment \/ CallGetEnvironment

SpecEnv == InitEnv /\ [][NextEnv]_vars

(***************************************************************************)
(* SpecContainer: verifyContainer called on generated documents.           *)
(***************************************************************************)
InitContainer ==
    /\ params \in {Params(DemoTarget(envs_Development), environments, containers) :
                       environments \in
                           {<<EnvRecord(envs_Development, <<"1","1","1">>, Region1, Str_domain)>>,
                            <<EnvRecord(envs_Development, <<"1","1","1">>, Region1, Str_domain),
                              EnvRecord(envs_Staging, <<"2","2","2">>, Region2, Str_domain)>>},
                       containers \in SeqsUpTo(ContainerRecordVals, MaxContainers)}
    /\ files \in {NoFiles, TemplateFiles}
    /\ pc = "library"
    /\ exitError = NoError
    /\ checks = <<>>
    /\ effects = <<>>
    /\ ret = NoRet

CallVerifyContainer ==
    /\ pc = "library"
    /\ LET r == verifyContainer
       IN  ret' = Ret("verifyContainer", <<>>,
                      [issued |-> r.issued, probed |-> r.probed], r.err)
    /\ UNCHANGED <<params, files, pc, exitError, checks, effects>>

CallGetContainer ==
    /\ pc = "library"
    /\ \E imageName \in {Str_keycloak, Str_proxy} :
           LET r == getContainer(imageName)
           IN  ret' = Ret("getContainer", imageName, r.val, r.err)
    /\ UNCHANGED <<params, files, pc, exitError, checks, effects>>

NextContainer == CallVerifyContainer \/ CallGetContainer

SpecContainer == InitContainer /\ [][NextContainer]_vars

(***************************************************************************)
(* SpecRender: createDockerfile called on generated templates and version  *)
(* lists.                                                                  *)
(***************************************************************************)
\* Longest generated version list.
MaxVersions == 2

\* Version entries: a plain one, one that is the text of a placeholder, and one
\* that is a replacement pattern of String.prototype.replaceAll.
VersionVals == {<<"1">>, Placeholder(1), <<"$","&">>}

\* Templates: the placeholders 0, 1 and 2, alone, repeated and side by side.
RenderTemplates ==
    {Str_template,
     Placeholder(0) \o <<"-">> \o Placeholder(0),
     Placeholder(0) \o Placeholder(1),
     Placeholder(1),
     <<"a">> \o Placeholder(2)}

Str_old == <<"o","l","d">>

\* The filesystems: nothing, a template, a template beside an earlier
\* Dockerfile, an earlier Dockerfile without a template.
RenderFiles ==
    LET template == Str_img \o <<"/">> \o <<"template">>
        dockerfile == Str_img \o <<"/">> \o <<"Dockerfile">>
    IN  {NoFiles, [f \in {dockerfile} |-> Str_old]}
        \cup {[f \in {template} |-> t] : t \in RenderTemplates}
        \cup {[f \in {template, dockerfile} |-> IF f = template THEN t ELSE Str_old] :
                  t \in RenderTemplates}

InitRender ==
    /\ params \in {Params(DemoTarget(envs_Development),
                           <<EnvRecord(envs_Development, <<"1","1","1">>, Region1, Str_domain)>>,
                           <<ContainerRecord(Str_keycloak, envs_Development, Str_repo,
                                             Str_img, version, Str_tag)>>) :
                       version \in SeqsUpTo(VersionVals, MaxVersions)}
    /\ files \in RenderFiles
    /\ pc = "library"
    /\ exitError = NoError
    /\ checks = <<>>
    /\ effects = <<>>
    /\ ret = NoRet

CallCreateDockerfile ==
    /\ pc = "library"
    /\ \E imageName \in {Str_keycloak, Str_proxy} :
           LET r == createDockerfile(imageName)
           IN  /\ ret' = Ret("createDockerfile", imageName, <<>>, r.err)
               /\ files' = r.files
    /\ UNCHANGED <<params, pc, exitError, checks, effects>>

NextRender == CallCreateDockerfile \/ CallVerifyContainer

SpecRender == InitRender /\ [][NextRender]_vars

(***************************************************************************)
(* The entry point (bin): the modules' top-level code, the four            *)
(* verifications, the stack-name file, the stacks, and then the event loop *)
(* in which the checks' callbacks run. The script is synchronous: no       *)
(* callback runs before its last statement.                                *)
(***************************************************************************)
serviceName == Str_keycloak
Str_CertificateStack == <<"C","e","r","t","i","f","i","c","a","t","e","S","t","a","c","k">>
Str_KeycloakStack == <<"K","e","y","c","l","o","a","k","S","t","a","c","k">>
StackMapFile == <<"stack-map.json">>
Str_certificateArn == <<"c","e","r","t","i","f","i","c","a","t","e","A","r","n">>

\* obj.k1.k2...: <<v>> for the value v of the field the path names, <<>> when the
\* object the last key is read of has no such field and the read is undefined.
\* (Every key but the last names an object in every path read below.)
RECURSIVE Lookup(_, _)
Lookup(obj, path) ==
    IF Len(path) = 0 THEN Found(obj)
    ELSE IF Head(path) \in DOMAIN obj THEN Lookup(obj[Head(path)], Tail(path))
    ELSE NotFound

\* The field paths the KeycloakStack constructor reads of getVpcParameter(),
\* of getRdsParameter() and of getEcsParameter(), in the order of its lines.
VpcPaths ==
    <<<<"ipAddresses">>, <<"natGateways">>, <<"maxAzs">>,
      <<"subnetCidrMask">>, <<"subnetCidrMask">>>>
RdsPaths ==
    <<<<"deletionProtection">>, <<"buckupRetentionDays">>,
      <<"scaling", "minCapacity">>, <<"scaling", "maxCapacity">>>>
SchedulePaths(rule) ==
    <<<<"service", "scaling", "schedule", rule, "cron">>,
      <<"service", "scaling", "schedule", rule, "minCapacity">>,
      <<"service", "scaling", "schedule", rule, "maxCapacity">>>>
EcsPaths ==
    <<<<"taskDefinition", "cpu">>, <<"taskDefinition", "memoryLimitMiB">>,
      <<"taskDefinition", "command">>,
      <<"service", "circuitBreaker">>, <<"service", "nodeCount">>,
      <<"service", "healthCheckGracePeriod">>,
      <<"service", "scaling", "base", "minCapacity">>,
      <<"service", "scaling", "base", "maxCapacity">>,
      <<"service", "scaling", "base", "cpuUtilization">>,
      <<"service", "scaling", "base", "scaleOutCooldown">>,
      <<"service", "scaling", "base", "scaleInCooldown">>>>
    \o SchedulePaths("beforeOpening") \o SchedulePaths("afterOpening")
    \o SchedulePaths("beforeClosing") \o SchedulePaths("afterClosing")
AlbPaths ==
    <<<<"alb", "healthyThresholdCount">>, <<"alb", "interval">>, <<"alb", "timeout">>,
      <<"alb", "slowStart">>, <<"alb", "stickinessCookieDuration">>,
      <<"bastion", "instanceType">>>>

\* The properties a stack's constructor has set from a profile: for each path
\* read, what the read gave.
Properties(stack, resolver, profile, paths) ==
    [kind |-> "properties", stack |-> stack, on |-> "", path |-> <<>>,
     resolver |-> resolver,
     reads |-> [i \in 1..Len(paths) |->
                   [path |-> paths[i], value |-> Lookup(profile, paths[i])]]]

\* One thing the entry point has done: kind is what, stack the stack it belongs
\* to ("" for none), on the stack a dependency is on, path the file or the
\* parameter concerned.
Effect(kind, stack, on, path) == [kind |-> kind, stack |-> stack, on |-> on, path |-> path]

\* Most environment records of a document the entry point is run on.
MaxRunEnvs == 2

\* The process ends with an uncaught error.
Exit(error) ==
    /\ pc' = "exited"
    /\ exitError' = error

\* Top-level code of lib/cdk-keycloak-stack.ts, run when the entry point imports
\* it: getDomain() reads a field of getEnvironment(), getContainer(serviceName)
\* throws when the container is not configured.
ImportModules ==
    /\ pc = "import"
    /\ IF getEnvironment(Undefined) = NotFound THEN Exit(TypeError("domain"))
       ELSE IF getContainer(serviceName).err # NoError
       THEN Exit(getContainer(serviceName).err)
       ELSE pc' = "verifyEnvironment" /\ UNCHANGED exitError
    /\ UNCHANGED <<params, files, checks, effects, ret>>

VerifyEnvironment ==
    /\ pc = "verifyEnvironment"
    /\ IF verifyEnvironment # NoError THEN Exit(verifyEnvironment)
       ELSE pc' = "verifyCallerAccount" /\ UNCHANGED exitError
    /\ UNCHANGED <<params, files, checks, effects, ret>>

\* verifyCallerAccount(): targetAccount is read before the call is issued; the
\* region is read inside the async function.
verifyCallerAccount ==
    LET env == getEnvironment(Undefined)
    IN  IF env = NotFound
        THEN [err |-> TypeError("account"), issued |-> <<>>]
        ELSE [err |-> NoError,
              issued |-> <<Pending("identity", <<>>, env[1].account,
                                   Request("sts", env[1].region, Undefined))>>]

VerifyCallerAccount ==
    /\ pc = "verifyCallerAccount"
    /\ checks' = checks \o verifyCallerAccount.issued
    /\ IF verifyCallerAccount.err # NoError THEN Exit(verifyCallerAccount.err)
       ELSE pc' = "verifyBranch" /\ UNCHANGED exitError
    /\ UNCHANGED <<params, files, effects, ret>>

\* verifyBranch(): getCodeCommitRemoteBranches reads the region inside the async
\* function and lists the branches of target.repository.
verifyBranch ==
    LET env == getEnvironment(Undefined)
    IN  IF env = NotFound
        THEN <<Rejected("branch", <<>>, params.target.branch, TypeError("region"))>>
        ELSE <<Pending("branch", <<>>, params.target.branch,
                       Request("codecommit", env[1].region, params.target.repository))>>

VerifyBranch ==
    /\ pc = "verifyBranch"
    /\ checks' = checks \o verifyBranch
    /\ pc' = "verifyContainer"
    /\ UNCHANGED <<params, files, exitError, effects, ret>>

VerifyContainer ==
    /\ pc = "verifyContainer"
    /\ checks' = checks \o verifyContainer.issued
    /\ IF verifyContainer.err # NoError THEN Exit(verifyContainer.err)
       ELSE pc' = "exportStackMap" /\ UNCHANGED exitError
    /\ UNCHANGED <<params, files, effects, ret>>

\* The entry point's env, stackMap and writeFileSync("stack-map.json", ...).
ExportStackMap ==
    /\ pc = "exportStackMap"
    /\ IF getEnvironment(Undefined) = NotFound
       THEN Exit(TypeError("account")) /\ UNCHANGED <<files, effects>>
       ELSE /\ files' = [f \in DOMAIN files \cup {StackMapFile} |->
                            IF f = StackMapFile
                            THEN <<getId(Str_CertificateStack), getId(Str_KeycloakStack)>>
                            ELSE files[f]]
            /\ effects' = Append(effects, Effect("stackMap", "", "", StackMapFile))
            /\ pc' = "certificateStack"
            /\ UNCHANGED exitError
    /\ UNCHANGED <<params, checks, ret>>

\* new CertificateStack(app, ...): its constructor defines the certificate and
\* the parameter that publishes the certificate's identifier.
DefineCertificateStack ==
    /\ pc = "certificateStack"
    /\ effects' = effects \o
           <<Effect("stack", "certificateStack", "", <<>>),
             Effect("putParameter", "certificateStack", "",
                    getResourceNamePath(Str_certificateArn))>>
    /\ pc' = "keycloakStack"
    /\ UNCHANGED <<params, files, exitError, checks, ret>>

\* new KeycloakStack(app, ...): its constructor defines the network and the
\* database from their profiles, renders the Dockerfile of serviceName, defines
\* the service and its scaling from the compute profile, and the listener, whose
\* certificate is read from the parameter.
DefineKeycloakStack ==
    /\ pc = "keycloakStack"
    /\ LET r == createDockerfile(serviceName)
       IN  IF r.err # NoError
           THEN /\ Exit(r.err)
                /\ effects' = effects \o
                       <<Effect("stack", "keycloakStack", "", <<>>),
                         Properties("keycloakStack", "getVpcParameter",
                                    getVpcParameter, VpcPaths),
                         Properties("keycloakStack", "getRdsParameter",
                                    getRdsParameter, RdsPaths)>>
                /\ UNCHANGED files
           ELSE /\ files' = r.files
                /\ effects' = effects \o
                       <<Effect("stack", "keycloakStack", "", <<>>),
                         Properties("keycloakStack", "getVpcParameter",
                                    getVpcParameter, VpcPaths),
                         Properties("keycloakStack", "getRdsParameter",
                                    getRdsParameter, RdsPaths),
                         Effect("dockerfile", "keycloakStack", "",
                                DockerfilePath(getContainer(serviceName).val[1])),
                         Properties("keycloakStack", "getEcsParameter",
                                    getEcsParameter, EcsPaths),
                         Effect("readParameter", "keycloakStack", "",
                                getResourceNamePath(Str_certificateArn)),
                         Properties("keycloakStack", "getEcsParameter",
                                    getEcsParameter, AlbPaths)>>
                /\ pc' = "finish"
                /\ UNCHANGED exitError
    /\ UNCHANGED <<params, checks, ret>>

\* keycloakStack.addDependency(certificateStack), addTags: the script's last
\* statements. The event loop starts.
FinishScript ==
    /\ pc = "finish"
    /\ effects' = Append(effects, Effect("addDependency", "keycloakStack",
                                         "certificateStack", <<>>))
    /\ pc' = "eventLoop"
    /\ UNCHANGED <<params, files, exitError, checks, ret>>

HasRejected == \E i \in 1..Len(checks) : checks[i].state = "rejected"

\* A promise rejected before the script ended has no handler: the process ends
\* with its error as soon as the script has ended.
UnhandledRejection ==
    /\ pc = "eventLoop"
    /\ HasRejected
    /\ LET i == CHOOSE k \in 1..Len(checks) :
                    /\ checks[k].state = "rejected"
                    /\ \A j \in 1..(k - 1) : checks[j].state # "rejected"
       IN  Exit(checks[i].outcome)
    /\ UNCHANGED <<params, files, checks, effects, ret>>

\* What a service may answer: the call fails, or it returns a result.
Failure == Answer(FALSE, Undefined, FALSE, <<>>)
Str_other == <<"o">>
Answers(check) ==
    {Failure} \cup
    CASE check.kind = "identity" ->
             {Answer(TRUE, a, FALSE, <<>>) : a \in {<<"1","1","1">>, <<"2","2","2">>}}
      [] check.kind = "branch" ->
             {Answer(TRUE, Undefined, FALSE, <<>>)} \cup
             {Answer(TRUE, Undefined, TRUE, l) :
                  l \in {<<Str_other>>, <<Str_other, Str_main>>}}
      [] check.kind = "repository" ->
             {Answer(TRUE, Undefined, FALSE, <<>>)} \cup
             {Answer(TRUE, Undefined, TRUE, l) :
                  l \in {<<Str_other>>, <<Str_other, Str_repo>>}}

\* The service answers a pending call. The answer waits for the event loop to
\* run the callback. (An answer that arrives while the script still runs waits
\* as well: it is taken here as arriving once the script has ended.)
Respond ==
    /\ pc = "eventLoop"
    /\ ~HasRejected
    /\ \E i \in 1..Len(checks) :
           /\ checks[i].state = "pending"
           /\ \E a \in Answers(checks[i]) :
                  checks' = [checks EXCEPT ![i].state = "answered", ![i].answer = a]
    /\ UNCHANGED <<params, files, pc, exitError, effects, ret>>

\* The error of a call that failed: the promise of client.send is rejected.
CallError(check) == Err("callError", <<>>, <<check.request.service>>)

\* The then-callback of verifyCallerAccount: the error it throws.
verifyCallerAccountThen(check) ==
    IF check.answer.account # check.expect
    THEN Err("accountMismatch", ConsolePrefix, check.answer.account)
    ELSE NoError

\* obj.branches?.includes(v): undefined, which is falsy, when there is no list.
OptionalIncludes(answer, v) == answer.hasList /\ Includes(answer.list, v)

\* The mutation of verifyBranchThen used for C7: a result without a branch list
\* passes.
verifyBranchThen_ListOnly(check) ==
    IF check.answer.hasList /\ ~Includes(check.answer.list, params.target.branch)
    THEN Err("branchNotFound", ConsolePrefix, params.target.repository)
    ELSE NoError

\* The then-callback of verifyBranch.
verifyBranchThen(check) ==
    IF ~OptionalIncludes(check.answer, params.target.branch)
    THEN Err("branchNotFound", ConsolePrefix, params.target.repository)
    ELSE NoError

\* The then-callback of verifyContainer's repository check.
verifyContainerThen(check) ==
    IF ~OptionalIncludes(check.answer, check.expect)
    THEN Err("repoNotFound", ConsolePrefix, check.expect)
    ELSE NoError

\* The outcome of a check whose call has been answered.
Outcome(check) ==
    IF ~check.answer.ok THEN CallError(check)
    ELSE CASE check.kind = "identity" -> verifyCallerAccountThen(check)
           [] check.kind = "branch" -> verifyBranchThen(check)
           [] check.kind = "repository" -> verifyContainerThen(check)

\* The event loop runs the callback of an answered call. An error thrown in it
\* rejects a promise nothing handles: the process ends with that error.
Deliver ==
    /\ pc = "eventLoop"
    /\ ~HasRejected
    /\ \E i \in 1..Len(checks) :
           /\ checks[i].state = "answered"
           /\ LET o == Outcome(checks[i])
              IN  /\ checks' = [checks EXCEPT ![i].state = "done", ![i].outcome = o]
                  /\ IF o # NoError THEN Exit(o) ELSE UNCHANGED <<pc, exitError>>
    /\ UNCHANGED <<params, files, effects, ret>>

\* Nothing is pending: the process ends without an error.
ExitIdle ==
    /\ pc = "eventLoop"
    /\ \A i \in 1..Len(checks) : checks[i].state = "done"
    /\ pc' = "exited"
    /\ UNCHANGED <<params, files, exitError, checks, effects, ret>>

\* The container records of the documents the entry point is run on.
RunContainerVals ==
    {ContainerRecord(n, e, Str_repo, Str_img, Versions1, Str_tag) :
        n \in {Str_keycloak, Str_proxy}, e \in {envs_Development, envs_Staging}}
    \cup {ContainerRecord(Str_proxy, envs_Development, Str_repo, Str_img, Versions1, <<>>)}

RunEnvVals ==
    {EnvRecord(envs_Development, <<"1","1","1">>, Region1, Str_domain),
     EnvRecord(envs_Development, <<"2","2","2">>, Region2, Str_domain),
     EnvRecord(envs_Staging, <<"1","1","1">>, Region1, Str_domain),
     EnvRecord(envs_Staging, <<"2","2","2">>, Region2, Str_domain),
     EnvRecord(envs_Production, <<"1","1","1">>, Region1, Str_domain)}

Init ==
    /\ params \in {Params(DemoTarget(e), environments, containers) :
                       e \in {envs_Development, envs_Staging, envs_Production},
                       environments \in SeqsUpTo(RunEnvVals, MaxRunEnvs),
                       containers \in SeqsUpTo(RunContainerVals, MaxContainers)}
    /\ files \in {NoFiles, TemplateFiles}
    /\ pc = "import"
    /\ exitError = NoError
    /\ checks = <<>>
    /\ effects = <<>>
    /\ ret = NoRet

Next ==
    \/ ImportModules
    \/ VerifyEnvironment
    \/ VerifyCallerAccount
    \/ VerifyBranch
    \/ VerifyContainer
    \/ ExportStackMap
    \/ DefineCertificateStack
    \/ DefineKeycloakStack
    \/ FinishScript
    \/ UnhandledRejection
    \/ Respond
    \/ Deliver
    \/ ExitIdle

Spec == Init /\ [][Next]_vars

(***************************************************************************)
(* SpecNames: the naming functions called on a loaded document.            *)
(***************************************************************************)
Str_domain2 == <<"y",".","i","o">>

\* The environment records of the documents the naming functions are called
\* on: none, one record for each tier of the enumeration, and records among
\* which two have the development tier's name.
NameEnvVals ==
    {<<>>,
     <<EnvRecord(envs_Development, <<"1","1","1">>, Region1, Str_domain),
       EnvRecord(envs_Staging, <<"2","2","2">>, Region1, Str_domain2),
       EnvRecord(envs_Production, <<"3","3","3">>, Region1, Str_domain)>>,
     <<EnvRecord(envs_Staging, <<"2","2","2">>, Region1, Str_domain),
       EnvRecord(envs_Development, <<"1","1","1">>, Region1, Str_domain2),
       EnvRecord(envs_Development, <<"3","3","3">>, Region1, Str_domain)>>}

InitNames ==
    /\ params \in {Params(Target(a, e, b, Str_repo), environments, <<>>) :
                       a \in AppVals, e \in TierVals, b \in BranchVals,
                       environments \in NameEnvVals}
    /\ files = NoFiles
    /\ pc = "library"
    /\ exitError = NoError
    /\ checks = <<>>
    /\ effects = <<>>
    /\ ret = NoRet

CallGetId ==
    /\ pc = "library"
    /\ \E base \in BaseVals : ret' = Ret("getId", base, getId(base), NoError)
    /\ UNCHANGED <<params, files, pc, exitError, checks, effects>>

CallGetResourceName ==
    /\ pc = "library"
    /\ \E base \in BaseVals :
           ret' = Ret("getResourceName", base, getResourceName(base), NoError)
    /\ UNCHANGED <<params, files, pc, exitError, checks, effects>>

CallGetResourceNamePath ==
    /\ pc = "library"
    /\ \E base \in BaseVals :
           ret' = Ret("getResourceNamePath", base, getResourceNamePath(base), NoError)
    /\ UNCHANGED <<params, files, pc, exitError, checks, effects>>

CallGetDomain ==
    /\ pc = "library"
    /\ ret' = Ret("getDomain", <<>>, getDomain.val, getDomain.err)
    /\ UNCHANGED <<params, files, pc, exitError, checks, effects>>

CallGetEcsParameter ==
    /\ pc = "library"
    /\ ret' = Ret("getEcsParameter", <<>>, getEcsParameter, NoError)
    /\ UNCHANGED <<params, files, pc, exitError, checks, effects>>

NextNames ==
    \/ CallGetEcsParameter
    \/ CallGetId
    \/ CallGetResourceName
    \/ CallGetResourceNamePath
    \/ CallGetDomain

SpecNames == InitNames /\ [][NextNames]_vars

(***************************************************************************)
(* SpecDeploy: deployments of several targets, each a run of the program   *)
(* on its own document, into the same account: effects holds the           *)
(* identifiers and resource names the runs have produced.                  *)
(***************************************************************************)
\* Most names produced in a behaviour.
MaxNames == 2

Str_Demo == <<"D","e","m","o">>
Str_feature == <<"f","e","a","t","u","r","e">>
Str_featureDigit == <<"f","e","a","t","u","r","e","1">>
Str_Feature1 == <<"F","e","a","t","u","r","e","-","1">>
Str_1alb == <<"1","-","a","l","b">>

DeployTargets ==
    {Target(a, e, b, Str_repo) :
        a \in {Str_demo, Str_Demo},
        e \in {envs_Development, envs_Staging},
        b \in {Str_feature1, Str_featureDigit, Str_feature, Str_Feature1}}
DeployBaseVals == {Str_alb, Str_1alb}

\* A name a run has produced: by which function, for which target and base.
Produced(fn, target, base, name) ==
    [fn |-> fn, target |-> target, base |-> base, name |-> name]

InitDeploy ==
    /\ params \in {Params(t, <<>>, <<>>) : t \in DeployTargets}
    /\ files = NoFiles
    /\ pc = "library"
    /\ exitError = NoError
    /\ checks = <<>>
    /\ effects = <<>>
    /\ ret = NoRet

\* Another run of the program: loadConfig reads the document of its target.
LoadConfig ==
    /\ pc = "library"
    /\ \E t \in DeployTargets : params' = Params(t, <<>>, <<>>)
    /\ ret' = NoRet
    /\ UNCHANGED <<files, pc, exitError, checks, effects>>

DeployGetId ==
    /\ pc = "library"
    /\ Len(effects) < MaxNames
    /\ \E base \in DeployBaseVals :
           /\ ret' = Ret("getId", base, getId(base), NoError)
           /\ effects' = Append(effects, Produced("getId", params.target, base, getId(base)))
    /\ UNCHANGED <<params, files, pc, exitError, checks>>

DeployGetResourceName ==
    /\ pc = "library"
    /\ Len(effects) < MaxNames
    /\ \E base \in DeployBaseVals :
           /\ ret' = Ret("getResourceName", base, getResourceName(base), NoError)
           /\ effects' = Append(effects, Produced("getResourceName", params.target, base,
                                                  getResourceName(base)))
    /\ UNCHANGED <<params, files, pc, exitError, checks>>

NextDeploy == LoadConfig \/ DeployGetId \/ DeployGetResourceName

SpecDeploy == InitDeploy /\ [][NextDeploy]_vars

(***************************************************************************)
(* C9, C10: the naming functions.                                          *)
(***************************************************************************)
\* The claim's description of cap, computed by position and not by splitting:
\* the hyphens are dropped, a character that starts the string or follows a
\* hyphen is upper-cased, every other character is lower-cased.
CapByPosition(s) ==
    LET idx == SelectSeq([i \in 1..Len(s) |-> i], LAMBDA i : s[i] # "-")
    IN  [k \in 1..Len(idx) |->
            IF idx[k] = 1 \/ s[idx[k] - 1] = "-"
            THEN ToUpperChar(s[idx[k]])
            ELSE ToLowerChar(s[idx[k]])]

IsScenario ==
    /\ params.target.application = Str_demo
    /\ params.target.environment = Str_development
    /\ params.target.branch = Str_feature1

\* C9: getResourceName(base) is app-tier-base when the target tier is production
\* or staging and app-tier-branch-base when it is development (also under the
\* scenario's tier name "development"); in the scenario getResourceName("alb") is
\* "demo-development-feature-1-alb".
C9_ResourceName ==
    ret.op = "getResourceName" =>
        LET t == params.target
        IN  /\ t.environment \in {envs_Production, envs_Staging} =>
                   ret.val = Concat(<<t.application, Hyphen, t.environment, Hyphen, ret.arg>>)
            /\ t.environment \in {envs_Development, Str_development} =>
                   ret.val = Concat(<<t.application, Hyphen, t.environment, Hyphen,
                                      t.branch, Hyphen, ret.arg>>)
            /\ (IsScenario /\ ret.arg = Str_alb) =>
                   ret.val = <<"d","e","m","o","-","d","e","v","e","l","o","p","m","e","n","t",
                               "-","f","e","a","t","u","r","e","-","1","-","a","l","b">>

C9_Witness ==
    /\ ret.op = "getResourceName" /\ ret.arg = Str_alb /\ IsScenario
    /\ Len(ret.val) = 30

\* C10: getId(base) is cap(application) + cap(tier) + cap(branch) + base, base
\* unchanged; in the scenario getId("CertStack") is
\* "DemoDevelopmentFeature1CertStack".
C10_Id ==
    ret.op = "getId" =>
        LET t == params.target
        IN  /\ ret.val = CapByPosition(t.application) \o CapByPosition(t.environment)
                             \o CapByPosition(t.branch) \o ret.arg
            /\ (IsScenario /\ ret.arg = Str_CertStack) =>
                   ret.val = <<"D","e","m","o","D","e","v","e","l","o","p","m","e","n","t",
                               "F","e","a","t","u","r","e","1","C","e","r","t","S","t","a","c","k">>

C10_Witness ==
    /\ ret.op = "getId" /\ ret.arg = Str_CertStack /\ IsScenario
    /\ Len(ret.val) = 32

(***************************************************************************)
(* C3: verifyEnvironment rejects inconsistent documents.                   *)
(***************************************************************************)
SharedTierName ==
    \E i, j \in 1..Len(params.environments) :
        i # j /\ params.environments[i].name = params.environments[j].name

SharedAccount ==
    \E i, j \in 1..Len(params.environments) :
        i # j /\ params.environments[i].account = params.environments[j].account

TargetMatches ==
    Cardinality({i \in 1..Len(params.environments) :
                     params.environments[i].name = params.target.environment})

\* C3: when two environment records share a tier name, or two share an account
\* identifier, or target.environment is the tier name of zero or of more than
\* one record, verifyEnvironment throws the invalid-configuration error.
C3_EnvironmentRejected ==
    (ret.op = "verifyEnvironment" /\ (SharedTierName \/ SharedAccount \/ TargetMatches # 1))
        => ret.err = Err("envInvalid", ConsolePrefix, <<>>)

\* The case only the account comparison rejects: every name legal and distinct,
\* the target matched once, two records with one account.
C3_Witness ==
    /\ ret.op = "verifyEnvironment"
    /\ SharedAccount /\ ~SharedTierName /\ TargetMatches = 1
    /\ \A i \in 1..Len(params.environments) :
           Includes(validEnvNames, params.environments[i].name)
    /\ ret.err.kind = "envInvalid"

(***************************************************************************)
(* C4, C5, C6: verifyContainer.                                            *)
(***************************************************************************)
Containers == params.containers

HasEmptyField(c) ==
    c.repositoryName = <<>> \/ c.imagePath = <<>> \/ c.version = <<>> \/ c.tag = <<>>

\* The tier reference of c names an environment record.
TierResolves(c) ==
    \E k \in 1..Len(params.environments) : params.environments[k].name = c.environment

SharedContainerName ==
    \E i, j \in 1..Len(Containers) : i # j /\ Containers[i].name = Containers[j].name

\* C4: when two container records have the same logical name, verifyContainer
\* ends in an error, whatever the other fields are.
C4_DuplicateRejected ==
    (ret.op = "verifyContainer" /\ SharedContainerName) => ret.err # NoError

\* Two records of one name, both well-formed with their template present and
\* their tier resolving: only the duplicate test rejects the collection.
C4_Witness ==
    /\ ret.op = "verifyContainer" /\ SharedContainerName
    /\ \A i \in 1..Len(Containers) :
           /\ ~HasEmptyField(Containers[i])
           /\ TierResolves(Containers[i])
    /\ files # NoFiles
    /\ ret.err.kind = "containerDuplicated"
    /\ Len(ret.val.issued) = 2

\* C5 as claimed, for the record verifyContainer examines first: when its tier
\* reference names no environment record, verifyContainer fails with the
\* configuration error for that container.
C5_UnresolvedTierRejected ==
    (ret.op = "verifyContainer" /\ Len(Containers) >= 1 /\ ~TierResolves(Containers[1]))
        => ret.err = Err("containerInvalid", ConsolePrefix, Containers[1].name)

FirstOfName(j) ==
    Containers[CHOOSE k \in 1..Len(Containers) :
                   /\ Containers[k].name = Containers[j].name
                   /\ \A m \in 1..(k - 1) : Containers[m].name # Containers[j].name]

\* verifyContainer reaches record i: it is the first of its name, and every
\* name before it is looked up to a record that is accepted and whose template
\* exists.
Reaches(i) ==
    /\ \A j \in 1..(i - 1) :
           /\ Containers[j].name # Containers[i].name
           /\ ~HasEmptyField(FirstOfName(j))
           /\ FirstOfName(j).environment \in {envs_Development, envs_Staging, envs_Production}
           /\ (FirstOfName(j).imagePath \o <<"/","template">>) \in DOMAIN files

TargetEnvRecord ==
    params.environments[CHOOSE k \in 1..Len(params.environments) :
        /\ params.environments[k].name = params.target.environment
        /\ \A m \in 1..(k - 1) :
               params.environments[m].name # params.target.environment]

\* Every call answered so far has succeeded: each check passes or fails on what
\* its service returned.
NoCallFailed ==
    \A j \in 1..Len(checks) :
        checks[j].state \in {"answered", "done"} => checks[j].answer.ok

\* C1 as claimed: once the identity service has returned an account that is not
\* the target environment's, a run that has ended has ended with the
\* identity-mismatch error, whatever the branch and repository checks did (every
\* call having succeeded).
C1_IdentityMismatchReported ==
    \A i \in 1..Len(checks) :
        (/\ checks[i].kind = "identity"
         /\ checks[i].state \in {"answered", "done"}
         /\ checks[i].answer.account # TargetEnvRecord.account
         /\ NoCallFailed
         /\ pc = "exited")
            => exitError.kind = "accountMismatch"

CheckFailureKinds == {"accountMismatch", "branchNotFound", "repoNotFound", "callError"}

\* C2 as claimed: a run that a failing precondition check has ended has written
\* no stack-name file, rendered no Dockerfile and defined no stack.
C2_FailureBeforeEffects ==
    (pc = "exited" /\ exitError.kind \in CheckFailureKinds) => effects = <<>>

\* The target branch is a member of the list the service returned.
BranchIsMember(check) ==
    /\ check.answer.hasList
    /\ \E k \in 1..Len(check.answer.list) : check.answer.list[k] = params.target.branch

\* C7: when the branch-listing call has returned and its callback has run, the
\* check has failed with the branch-not-found error, ending the process with it,
\* if the target branch is not in the returned list or there is no list, and has
\* not failed if the branch is in the list.
C7_BranchCheck ==
    \A i \in 1..Len(checks) :
        (checks[i].kind = "branch" /\ checks[i].state = "done" /\ checks[i].answer.ok) =>
            IF BranchIsMember(checks[i])
            THEN checks[i].outcome = NoError
            ELSE /\ checks[i].outcome =
                        Err("branchNotFound", ConsolePrefix, params.target.repository)
                 /\ pc = "exited"
                 /\ exitError = checks[i].outcome

\* The service returned no branch list at all and the process ended with the
\* branch-not-found error.
C7_Witness ==
    \E i \in 1..Len(checks) :
        /\ checks[i].kind = "branch" /\ checks[i].state = "done"
        /\ checks[i].answer.ok /\ ~checks[i].answer.hasList
        /\ exitError.kind = "branchNotFound"

\* The container record getContainer returns for a name.
ContainerNamed(name) ==
    Containers[CHOOSE k \in 1..Len(Containers) :
                   /\ Containers[k].name = name
                   /\ \A m \in 1..(k - 1) : Containers[m].name # name]

\* C8 as claimed: the repository-listing call issued for a container carries the
\* account identifier and the region of the environment record the container
\* references.
C8_RepositoryCallCarriesAccount ==
    \A i \in 1..Len(checks) :
        (checks[i].kind = "repository" /\ checks[i].state # "rejected") =>
            \E k \in 1..Len(params.environments) :
                /\ params.environments[k].name = ContainerNamed(checks[i].subject).environment
                /\ checks[i].request.region = params.environments[k].region
                /\ checks[i].request.arg = params.environments[k].account

(***************************************************************************)
(* C11..C15: the naming functions, continued.                              *)
(***************************************************************************)
\* The environment records whose tier name is the target's.
MatchingEnvs ==
    {k \in 1..Len(params.environments) :
         params.environments[k].name = params.target.environment}

\* C11: when exactly one environment record has the target's tier name,
\* getDomain returns tier.base-domain for production and staging and
\* tier-branch.base-domain for development, base-domain being that record's
\* domain; when several records have it, the base-domain is that of one of them.
C11_Domain ==
    (ret.op = "getDomain" /\ MatchingEnvs # {}) =>
        LET t == params.target
        IN  /\ ret.err = NoError
            /\ \E k \in MatchingEnvs :
                   LET d == params.environments[k].domain
                   IN  /\ t.environment \in {envs_Production, envs_Staging} =>
                              ret.val = Concat(<<t.environment, Dot, d>>)
                       /\ t.environment = envs_Development =>
                              ret.val = Concat(<<t.environment, Hyphen, t.branch, Dot, d>>)

\* getDomain is called for a development target on branch feature-1 and returns
\* dev-feature-1.x.io.
C11_Witness ==
    /\ ret.op = "getDomain"
    /\ params.target.environment = envs_Development
    /\ params.target.branch = Str_feature1
    /\ Cardinality(MatchingEnvs) = 1
    /\ ret.val = <<"d","e","v","-","f","e","a","t","u","r","e","-","1",".","x",".","i","o">>

\* C12: the parameter of the certificate's identifier is published and read at
\* /app/tier/branch/certificateArn, whatever the tier; what the Keycloak stack
\* reads, the certificate stack has published at the same path; and when the
\* script has ended, the reading stack depends on the publishing stack.
C12_CertificatePath ==
    LET t == params.target
        expected == Concat(<<Slash, t.application, Slash, t.environment, Slash,
                             t.branch, Slash, Str_certificateArn>>)
    IN  \A i \in 1..Len(effects) :
            /\ effects[i].kind \in {"putParameter", "readParameter"} =>
                   effects[i].path = expected
            /\ effects[i].kind = "readParameter" =>
                   \E j \in 1..Len(effects) :
                       /\ effects[j].kind = "putParameter"
                       /\ effects[j].path = effects[i].path
                       /\ effects[j].stack # effects[i].stack
                       /\ pc \in {"eventLoop", "exited"} =>
                              \E k \in 1..Len(effects) :
                                  /\ effects[k].kind = "addDependency"
                                  /\ effects[k].stack = effects[i].stack
                                  /\ effects[k].on = effects[j].stack

\* A production run has ended after defining both stacks: the path read has the
\* branch segment.
C12_Witness ==
    /\ pc = "exited"
    /\ params.target.environment = envs_Production
    /\ \E i \in 1..Len(effects) :
           /\ effects[i].kind = "readParameter"
           /\ effects[i].path = <<"/","d","e","m","o","/","p","r","o","d","/",
                                  "m","a","i","n","/">> \o Str_certificateArn

NamingOps == {"getId", "getResourceName", "getResourceNamePath", "getDomain"}

\* C13 as claimed: each of getId, getResourceName, getResourceNamePath and
\* getDomain returns a string and ends in no error, for every loaded document,
\* also one whose target tier matches no environment record.
C13_NamingTotal ==
    ret.op \in NamingOps => (ret.err = NoError /\ ret.val # Undefined)

\* C14 as claimed: for a fixed base, two targets that differ in application,
\* tier or branch never yield the same identifier.
C14_IdInjective ==
    \A i, j \in 1..Len(effects) :
        (/\ effects[i].fn = "getId" /\ effects[j].fn = "getId"
         /\ effects[i].base = effects[j].base
         /\ effects[i].target # effects[j].target)
            => effects[i].name # effects[j].name

\* C15 as claimed: two development deployments of one application on different
\* branches share no resource name, whatever the bases.
C15_ResourceNamesDisjoint ==
    \A i, j \in 1..Len(effects) :
        (/\ effects[i].fn = "getResourceName" /\ effects[j].fn = "getResourceName"
         /\ effects[i].target.environment = envs_Development
         /\ effects[j].target.environment = envs_Development
         /\ effects[i].target.application = effects[j].target.application
         /\ effects[i].target.branch # effects[j].target.branch)
            => effects[i].name # effects[j].name

(***************************************************************************)
(* C16, C17: the compute profile.                                          *)
(***************************************************************************)
\* C16: the base scaling rule of the profile getEcsParameter returns is
\* minCapacity 2, maxCapacity 8, cpuUtilization 70 for a production and for a
\* staging target, and minCapacity 1, maxCapacity 2, cpuUtilization 90 for a
\* development target.
C16_BaseScaling ==
    ret.op = "getEcsParameter" =>
        LET base == ret.val.service.scaling.base
            tier == params.target.environment
        IN  /\ tier \in {envs_Production, envs_Staging} =>
                   /\ base.minCapacity = 2
                   /\ base.maxCapacity = 8
                   /\ base.cpuUtilization = 70
            /\ tier = envs_Development =>
                   /\ base.minCapacity = 1
                   /\ base.maxCapacity = 2
                   /\ base.cpuUtilization = 90

\* The profile has been returned for a staging target.
C16_Witness ==
    /\ ret.op = "getEcsParameter"
    /\ params.target.environment = envs_Staging
    /\ ret.val.service.scaling.base.maxCapacity = 8

ScheduleRuleNames == {"beforeOpening", "afterOpening", "beforeClosing", "afterClosing"}

\* The largest maxCapacity over the rules of a schedule.
LargestMaxCapacity(schedule) ==
    CHOOSE m \in {schedule[r].maxCapacity : r \in DOMAIN schedule} :
        \A r \in DOMAIN schedule : schedule[r].maxCapacity <= m

\* C17: the profile returned has exactly the four schedule-based rules, each with
\* the cron expression the rule has in both tiers' profiles; the largest
\* maxCapacity over them is 24 for production and staging and 4 for
\* development; and every rule's minCapacity and maxCapacity in the durable
\* profile are at least those in the non-durable profile.
C17_Schedule ==
    ret.op = "getEcsParameter" =>
        LET schedule == ret.val.service.scaling.schedule
            durable == EcsParameterDurable.service.scaling.schedule
            nonDurable == EcsParameterNonDurable.service.scaling.schedule
            tier == params.target.environment
        IN  /\ DOMAIN schedule = ScheduleRuleNames
            /\ DOMAIN durable = ScheduleRuleNames
            /\ DOMAIN nonDurable = ScheduleRuleNames
            /\ \A r \in ScheduleRuleNames :
                   /\ schedule[r].cron = durable[r].cron
                   /\ schedule[r].cron = nonDurable[r].cron
                   /\ durable[r].minCapacity >= nonDurable[r].minCapacity
                   /\ durable[r].maxCapacity >= nonDurable[r].maxCapacity
            /\ tier \in {envs_Production, envs_Staging} => LargestMaxCapacity(schedule) = 24
            /\ tier = envs_Development => LargestMaxCapacity(schedule) = 4

\* The profile has been returned for a development target: its widest rule
\* allows 4 replicas.
C17_Witness ==
    /\ ret.op = "getEcsParameter"
    /\ params.target.environment = envs_Development
    /\ LargestMaxCapacity(ret.val.service.scaling.schedule) = 4
    /\ ret.val.service.scaling.schedule.afterClosing.maxCapacity = 2

(***************************************************************************)
(* C18, C19: rendering of the Dockerfile.                                  *)
(***************************************************************************)
\* The index k < n for which the text ${VERSION_k} stands in s at position i,
\* -1 when there is none.
PlaceholderAt(s, i, n) ==
    IF \E k \in 0..(n - 1) : MatchesAt(s, Placeholder(k), i)
    THEN CHOOSE k \in 0..(n - 1) : MatchesAt(s, Placeholder(k), i)
    ELSE -1

\* The claim's rendering of s from position i on: every placeholder with an index
\* in range is replaced by that entry of the version list as it stands, every
\* other character is kept.
RECURSIVE Substituted(_, _, _)
Substituted(s, version, i) ==
    IF i > Len(s) THEN <<>>
    ELSE LET k == PlaceholderAt(s, i, Len(version))
         IN  IF k >= 0
             THEN version[k + 1] \o Substituted(s, version, i + Len(Placeholder(k)))
             ELSE <<s[i]>> \o Substituted(s, version, i + 1)

\* C18 as claimed: the Dockerfile createDockerfile writes is the template in
\* which every ${VERSION_i} with i in range is replaced by the i-th entry of the
\* version list and every other placeholder is left verbatim, also when a
\* version entry contains placeholder text.
C18_Rendered ==
    (ret.op = "createDockerfile" /\ ret.err = NoError) =>
        LET config == ContainerNamed(ret.arg)
        IN  files[DockerfilePath(config)] =
                Substituted(files[TemplateFile(config)], config.version, 1)

\* The container of a name is configured and its template file is absent, or
\* the name is not configured.
TemplateMissing(imageName) ==
    \/ \A k \in 1..Len(Containers) : Containers[k].name # imageName
    \/ TemplateFile(ContainerNamed(imageName)) \notin DOMAIN files

\* C19: a call of createDockerfile for a container whose template file is absent,
\* or for a name that is not configured, ends in an error and leaves every file
\* as it was, whether verifyContainer was called before it or not.
C19_NoWriteWithoutTemplate ==
    [][(ret'.op = "createDockerfile" /\ TemplateMissing(ret'.arg))
           => (ret'.err # NoError /\ files' = files)]_vars

\* createDockerfile has failed for a configured container without a template,
\* and the Dockerfile of an earlier rendering is still as it was.
C19_Witness ==
    /\ ret.op = "createDockerfile" /\ ret.arg = Str_keycloak
    /\ ret.err.kind = "ENOENT"
    /\ TemplateMissing(Str_keycloak)
    /\ DOMAIN files = {Str_img \o <<"/">> \o <<"Dockerfile">>}
    /\ files[Str_img \o <<"/">> \o <<"Dockerfile">>] = Str_old

(***************************************************************************)
(* C20: the errors' messages.                                              *)
(***************************************************************************)
\* C20 as claimed: every error verifyContainer or getContainer raises, the
\* template-missing one included, has a message that begins with the upper-cased
\* application name in square brackets.
C20_ErrorsPrefixed ==
    (ret.op \in {"verifyContainer", "getContainer"} /\ ret.err # NoError) =>
        ret.err.prefix = <<"[">> \o ToUpperCase(params.target.application) \o <<"]", " ">>

(***************************************************************************)
(* C21: the profile fields the Keycloak stack reads.                       *)
(***************************************************************************)
\* C21 as claimed: every field path the Keycloak stack's constructor reads of a
\* profile names a field the profile has; no read is undefined.
C21_ConsumedPathsDefined ==
    \A i \in 1..Len(effects) :
        effects[i].kind = "properties" =>
            \A k \in 1..Len(effects[i].reads) : Len(effects[i].reads[k].value) = 1

(***************************************************************************)
(* C22: verifyEnvironment accepts consistent documents.                    *)
(***************************************************************************)
EnumeratedTiers == {<<"d","e","v">>, <<"s","t","g">>, <<"p","r","o","d">>}

\* The document is consistent: the target tier and every record's tier name are
\* of the enumeration, no two records share a tier name or an account, and
\* exactly one record has the target tier.
ConsistentDocument ==
    /\ params.target.environment \in EnumeratedTiers
    /\ \A i \in 1..Len(params.environments) :
           params.environments[i].name \in EnumeratedTiers
    /\ ~SharedTierName
    /\ ~SharedAccount
    /\ TargetMatches = 1

\* C22: verifyEnvironment throws nothing for a consistent document; the account
\* comparison in particular rejects none.
C22_ConsistentAccepted ==
    (ret.op = "verifyEnvironment" /\ ConsistentDocument) => ret.err = NoError

\* verifyEnvironment has returned for a consistent document of two records.
C22_Witness ==
    /\ ret.op = "verifyEnvironment"
    /\ ConsistentDocument
    /\ Len(params.environments) = 2
    /\ ret.err = NoError

(***************************************************************************)
(* C23: the order of the entry point's steps.                              *)
(***************************************************************************)
\* The positions of the entry point that follow a verifyEnvironment that passed.
AfterVerifyEnvironment ==
    {"verifyCallerAccount", "verifyBranch", "verifyContainer", "exportStackMap",
     "certificateStack", "keycloakStack", "finish", "eventLoop"}

\* C23 as claimed: once verifyEnvironment has passed, exactly one environment
\* record has the target's tier name; and since it runs before every other
\* step, no run ends with the error of reading the domain or the account of a
\* missing environment record, and neither the identity check nor the branch
\* check is rejected for reading the region of one.
C23_EnvironmentVerifiedFirst ==
    /\ pc \in AfterVerifyEnvironment => TargetMatches = 1
    /\ exitError.kind = "TypeError" =>
           exitError.subject \notin {<<"domain">>, <<"account">>}
    /\ \A i \in 1..Len(checks) :
           checks[i].kind \in {"identity", "branch"} => checks[i].state # "rejected"

(***************************************************************************)
(* C24: createDockerfile's frame and idempotence.                          *)
(***************************************************************************)
\* The files other than the Dockerfile of a container's image path.
OtherThanDockerfile(fs, imageName) ==
    IF \E k \in 1..Len(Containers) : Containers[k].name = imageName
    THEN DOMAIN fs \ {ContainerNamed(imageName).imagePath \o <<"/", "Dockerfile">>}
    ELSE DOMAIN fs

\* C24: a call of createDockerfile changes neither the configuration document
\* nor any file but the container's Dockerfile, the template included; and a
\* call that follows a successful call for the same container changes nothing
\* at all: the Dockerfile keeps the content the first call gave it.
C24_FrameAndIdempotence ==
    [][ret'.op = "createDockerfile" =>
           /\ params' = params
           /\ OtherThanDockerfile(files', ret'.arg) = OtherThanDockerfile(files, ret'.arg)
           /\ \A f \in OtherThanDockerfile(files, ret'.arg) : files'[f] = files[f]
           /\ (ret.op = "createDockerfile" /\ ret.arg = ret'.arg /\ ret.err = NoError)
                  => (ret'.err = NoError /\ files' = files)]_vars

\* createDockerfile has rendered the template F:${VERSION_0} with the version
\* list ["1"] over an earlier Dockerfile; the template is as it was.
C24_Witness ==
    /\ ret.op = "createDockerfile" /\ ret.arg = Str_keycloak /\ ret.err = NoError
    /\ Containers[1].version = <<<<"1">>>>
    /\ files[Str_img \o <<"/">> \o <<"template">>] =
           <<"F",":","$","{","V","E","R","S","I","O","N","_","0","}">>
    /\ files[Str_img \o <<"/">> \o <<"Dockerfile">>] = <<"F",":","1">>

====
